---- MODULE Spec2Model ----
(***************************************************************************)
(* Model of the prettier-bot action: run() collects the changed files of a *)
(* pull request, runs prettier --check on them and upserts one marker      *)
(* comment on the pull request.  Text is modelled as a sequence of         *)
(* characters: one-character strings, with an emoji or a backtick written  *)
(* as its code point (U+0060 is the backtick).                             *)
(*                                                                         *)
(* The repository holds two variants of run().  The model follows the      *)
(* fuller one: it drops removed files, applies the ignore file, captures   *)
(* the tool's exit status and stderr with runExec, quotes the file names   *)
(* of the remediation command and sets the exitCode output.  The variant   *)
(* in src/main.ts starts the tool with execSync, which throws on a         *)
(* non-zero exit, reads the report from prettier_output.txt, and has the   *)
(* same two branches and the same lookup of the marker comment.            *)
(*                                                                         *)
(* A run is suspended at each await; between two awaits it runs without    *)
(* interruption, so each action is one await returning (or throwing) and   *)
(* the synchronous code up to the next await.                              *)
(***************************************************************************)
EXTENDS Integers, Sequences, FiniteSets

(***************************************************************************)
(* String literals of the source.                                          *)
(***************************************************************************)
commentIdentifier ==
    <<"<", "!", "-", "-", " ", "p", "r", "e", "t", "t", "i", "e", "r", "-",
      "c", "h", "e", "c", "k", "-", "c", "o", "m", "m", "e", "n", "t", " ",
      "-", "-", ">">>

\* line feed, "Prettier check passed! " and the party popper emoji
PassText ==
    <<"\n", "P", "r", "e", "t", "t", "i", "e", "r", " ", "c", "h", "e", "c",
      "k", " ", "p", "a", "s", "s", "e", "d", "!", " ", "U+1F389">>

\* line feed, siren emoji, " Prettier check failed for the following files:",
\* two line feeds and an opening code fence
FailIntro ==
    <<"\n", "U+1F6A8", " ", "P", "r", "e", "t", "t", "i", "e", "r", " ", "c",
      "h", "e", "c", "k", " ", "f", "a", "i", "l", "e", "d", " ", "f", "o",
      "r", " ", "t", "h", "e", " ", "f", "o", "l", "l", "o", "w", "i", "n",
      "g", " ", "f", "i", "l", "e", "s", ":", "\n", "\n", "U+0060", "U+0060", "U+0060",
      "\n">>

\* closing code fence, "To fix the issue, run the following command:" and
\* an opening code fence
FixIntro ==
    <<"\n", "U+0060", "U+0060", "U+0060", "\n", "\n", "T", "o", " ", "f", "i", "x", " ", "t",
      "h", "e", " ", "i", "s", "s", "u", "e", ",", " ", "r", "u", "n", " ",
      "t", "h", "e", " ", "f", "o", "l", "l", "o", "w", "i", "n", "g", " ",
      "c", "o", "m", "m", "a", "n", "d", ":", "\n", "\n", "U+0060", "U+0060", "U+0060",
      "\n">>

\* line feed and closing code fence
FenceEnd ==
    <<"\n", "U+0060", "U+0060", "U+0060">>

\* "npx prettier --check "
CheckCmd ==
    <<"n", "p", "x", " ", "p", "r", "e", "t", "t", "i", "e", "r", " ", "-",
      "-", "c", "h", "e", "c", "k", " ">>

\* "npx prettier --write "
WriteCmd ==
    <<"n", "p", "x", " ", "p", "r", "e", "t", "t", "i", "e", "r", " ", "-",
      "-", "w", "r", "i", "t", "e", " ">>

\* the [warn] prefix the source strips from every diagnostic line
WarnPrefix ==
    <<"[", "w", "a", "r", "n", "]", " ">>

\* the extensions of the allow-list regular expression, each with its dot
AllowedExtensions ==
    { <<".", "j", "s">>, <<".", "j", "s", "x">>, <<".", "t", "s">>,
      <<".", "t", "s", "x">>, <<".", "j", "s", "o", "n">>,
      <<".", "j", "s", "o", "n", "5">>, <<".", "c", "s", "s">>,
      <<".", "l", "e", "s", "s">>, <<".", "s", "c", "s", "s">>,
      <<".", "s", "a", "s", "s">>, <<".", "h", "t", "m", "l">>,
      <<".", "m", "d">>, <<".", "m", "d", "x">>, <<".", "v", "u", "e">> }

\* per_page of pulls.listFiles
FilesPerPage == 100

\* issues.listComments is called without per_page or page: the API serves
\* the first page of its default size
CommentsPerPage == 30

(***************************************************************************)
(* JavaScript string and array methods the source uses.                    *)
(***************************************************************************)
Whitespace == {" ", "\n", "\t", "\r"}

Min(a, b) == IF a < b THEN a ELSE b

\* s.endsWith(suffix)
EndsWith(s, suffix) ==
    /\ Len(suffix) <= Len(s)
    /\ SubSeq(s, Len(s) - Len(suffix) + 1, Len(s)) = suffix

\* position of the first occurrence of sub in s, 0 when there is none
IndexOf(s, sub) ==
    LET hits == {i \in 1..(Len(s) - Len(sub) + 1) :
                     SubSeq(s, i, i + Len(sub) - 1) = sub}
    IN  IF hits = {} THEN 0 ELSE CHOOSE i \in hits : \A j \in hits : i <= j

\* s.includes(sub)
Includes(s, sub) == IndexOf(s, sub) # 0

\* s.replace(sub, ""): removes the first occurrence of sub only
RemoveFirst(s, sub) ==
    LET i == IndexOf(s, sub)
    IN  IF i = 0 THEN s
        ELSE SubSeq(s, 1, i - 1) \o SubSeq(s, i + Len(sub), Len(s))

RECURSIVE TrimStart(_)
TrimStart(s) ==
    IF s # <<>> /\ Head(s) \in Whitespace THEN TrimStart(Tail(s)) ELSE s

RECURSIVE TrimEnd(_)
TrimEnd(s) ==
    IF s # <<>> /\ s[Len(s)] \in Whitespace
    THEN TrimEnd(SubSeq(s, 1, Len(s) - 1))
    ELSE s

\* s.trim()
Trim(s) == TrimEnd(TrimStart(s))

\* s.split(line feed): the pieces between line feeds, one empty piece for
\* the empty string
RECURSIVE Split(_)
Split(s) ==
    LET i == IndexOf(s, <<"\n">>)
    IN  IF i = 0 THEN <<s>>
        ELSE <<SubSeq(s, 1, i - 1)>> \o Split(SubSeq(s, i + 1, Len(s)))

\* parts.join(sep), by halves
RECURSIVE Join(_, _)
Join(parts, sep) ==
    IF parts = <<>> THEN <<>>
    ELSE IF Len(parts) = 1 THEN parts[1]
    ELSE LET h == Len(parts) \div 2
         IN  Join(SubSeq(parts, 1, h), sep) \o sep
                 \o Join(SubSeq(parts, h + 1, Len(parts)), sep)

\* the text of the characters of s, each escaped as JSON.stringify escapes
RECURSIVE JsonEscape(_)
JsonEscape(s) ==
    IF s = <<>> THEN <<>>
    ELSE (CASE Head(s) = "\"" -> <<"\\", "\"">>
            [] Head(s) = "\\" -> <<"\\", "\\">>
            [] Head(s) = "\n" -> <<"\\", "n">>
            [] Head(s) = "\t" -> <<"\\", "t">>
            [] Head(s) = "\r" -> <<"\\", "r">>
            [] OTHER -> <<Head(s)>>) \o JsonEscape(Tail(s))

\* JSON.stringify(s) of a string
JSONStringify(s) == <<"\"">> \o JsonEscape(s) \o <<"\"">>

\* lines.pop(): the array without its last element
Pop(xs) == IF xs = <<>> THEN xs ELSE SubSeq(xs, 1, Len(xs) - 1)

(***************************************************************************)
(* The environment: the pull request's files, the ignore file, the         *)
(* formatting tool's output and the comments other people wrote.           *)
(***************************************************************************)
\* number of runs started in one behaviour
MaxRuns == 2

\* longest file list of a pull request in the general specification
MaxFiles == 2

\* the tool reports on the first MaxWarn of the files it is given
MaxWarn == 2

File(name, status) == [filename |-> name, status |-> status]

A_TS == <<"a", ".", "t", "s">>
B_PNG == <<"b", ".", "p", "n", "g">>
DOCS_C_MD == <<"d", "o", "c", "s", "/", "c", ".", "m", "d">>
OLD_JS == <<"o", "l", "d", ".", "j", "s">>
\* a name with a space and a double quote in it
Q_CSS == <<"m", "y", " ", "\"", "q", "\"", ".", "c", "s", "s">>

FilePool ==
    { File(A_TS, "modified"), File(B_PNG, "added"), File(DOCS_C_MD, "added"),
      File(OLD_JS, "removed") }

\* the files of the pull requests whose reports are looked at
ReportFilePool ==
    { File(A_TS, "modified"), File(Q_CSS, "added"), File(DOCS_C_MD, "added"),
      File(B_PNG, "added") }

\* the sequences of at most n elements of S, without repetition
RECURSIVE DistinctSeqs(_, _)
DistinctSeqs(S, n) ==
    IF n = 0 THEN {<<>>}
    ELSE LET shorter == DistinctSeqs(S, n - 1)
             longest == {q \in shorter : Len(q) = n - 1}
         IN  shorter \cup
             {Append(p[1], p[2]) :
                  p \in {t \in longest \X S :
                             \A i \in 1..Len(t[1]) : t[1][i] # t[2]}}

\* the file lists pulls.listFiles may serve for a pull request
PRFileLists == DistinctSeqs(FilePool, MaxFiles)
ReportPRFileLists == DistinctSeqs(ReportFilePool, MaxFiles)

\* the prettier-ignore input: no such file, or a file with these rules
NoIgnoreFile == [exists |-> FALSE, rules |-> {}]
IgnoreFiles ==
    { NoIgnoreFile, [exists |-> TRUE, rules |-> {<<"d", "o", "c", "s">>}] }

\* the comments other people wrote on the pull request before the first run
OtherBody == <<"o", "k">>
OtherCommentCounts ==
    {0, 1, CommentsPerPage - 1, CommentsPerPage, CommentsPerPage + 1}

\* the line the tool ends its report with
FooterLine ==
    WarnPrefix \o
    <<"C", "o", "d", "e", " ", "s", "t", "y", "l", "e", " ", "i", "s", "s",
      "u", "e", "s", " ", "f", "o", "u", "n", "d", ".", " ", "R", "u", "n",
      " ", "P", "r", "e", "t", "t", "i", "e", "r", " ", "t", "o", " ", "f",
      "i", "x", ".">>

\* a line ahead of the report that names no file
HeaderLine ==
    <<"C", "h", "e", "c", "k", "i", "n", "g", " ", "f", "o", "r", "m", "a",
      "t", "t", "i", "n", "g", ".", ".", ".">>

Layouts == {"footer", "header"}

\* the diagnostic text of a report on the files named: one [warn] line per
\* file and one line that names no file, after them or ahead of them; every
\* line ends with a line feed
DiagnosticText(layout, names) ==
    LET fileLines == [i \in 1..Len(names) |-> WarnPrefix \o names[i]]
        lines == IF layout = "footer" THEN Append(fileLines, FooterLine)
                 ELSE <<HeaderLine>> \o fileLines
    IN  Join(lines, <<"\n">>) \o <<"\n">>

\* the subsequences of xs
RECURSIVE SubSeqs(_)
SubSeqs(xs) ==
    IF xs = <<>> THEN {<<>>}
    ELSE LET rest == SubSeqs(Tail(xs))
         IN  rest \cup {<<Head(xs)>> \o q : q \in rest}

\* the files a report can name: the first MaxWarn of those the tool is given
Leading(files) == SubSeq(files, 1, Min(Len(files), MaxWarn))

\* the lists of files a report may name
Reportable(files) == SubSeqs(Leading(files))

\* what runExec returns when the subprocess exits with 0: nothing on stderr
PassResult == [err |-> FALSE, stderr |-> <<>>]

\* what runExec returns when the subprocess exits with another status
FailResult(l, names) == [err |-> TRUE, stderr |-> DiagnosticText(l, names)]

\* what runExec may return for a command on the given files: a pass, or a
\* failure whose report names the leading files and ends with the footer
ToolResults(files) == {PassResult, FailResult("footer", Leading(files))}

\* the same with every report: of either layout, on any of the files
AnyToolResults(files) ==
    {PassResult} \cup
    {FailResult(l, names) : l \in Layouts, names \in Reportable(files)}

(***************************************************************************)
(* The pure steps of run().                                                *)
(***************************************************************************)
\* page `page` of `per` entries of the list xs
PageOf(xs, page, per) ==
    SubSeq(xs, (page - 1) * per + 1, Min(page * per, Len(xs)))

\* a filter that keeps the removed files
NotDeleted_KeepAll(files) == files

\* files.filter(f => f.status !== 'removed')
NotDeleted(files) == SelectSeq(files, LAMBDA f : f.status # "removed")

\* a pagination that ends at the first page with nothing left after the
\* removed files are dropped
LastPage_AfterFilter(files) == Len(NotDeleted(files)) = 0

\* files.length === 0, the test that ends the pagination
LastPage(files) == Len(files) = 0

\* notDeletedFiles.map(f => f.filename)
FilenamesOf(files) == [i \in 1..Len(files) |-> files[i].filename]

\* the allow-list regular expression: a dot and an allowed extension at the
\* end of the name
AllowListed(f) == \E ext \in AllowedExtensions : EndsWith(f, ext)

\* the components of a path, split at "/"
RECURSIVE PathComponents(_)
PathComponents(f) ==
    LET i == IndexOf(f, <<"/">>)
    IN  IF i = 0 THEN {f}
        ELSE {SubSeq(f, 1, i - 1)} \cup PathComponents(SubSeq(f, i + 1, Len(f)))

\* ig.ignores(f) for rules that are plain names: a rule ignores the file or
\* directory of that name at any depth, and all that is under it
Ignores(rules, f) == \E rule \in rules : rule \in PathComponents(f)

\* lines 40 to 45: the extension filter, then the ignore filter when the
\* ignore file exists
FilterChanged(files, ig) ==
    LET allowed == SelectSeq(files, AllowListed)
    IN  IF ig.exists
        THEN SelectSeq(allowed, LAMBDA f : ~Ignores(ig.rules, f))
        ELSE allowed

\* the command line of the check
CheckCommand(files) == CheckCmd \o Join(files, <<" ">>)

\* lines that lose their first and their last line
DiagnosticLines_ShiftPop(prettierOutput) ==
    Pop(Tail(Split(Trim(prettierOutput))))

\* the lines the remediation command is built from: the trimmed output
\* split at line feeds, without its last line
DiagnosticLines(prettierOutput) == Pop(Split(Trim(prettierOutput)))

\* line.trim().replace('[warn] ', '')
StripWarn(line) == RemoveFirst(Trim(line), WarnPrefix)

\* the argument of the remediation command a diagnostic line gives
QuotedFile(line) == JSONStringify(StripWarn(line))

PrettierCommand(prettierOutput) ==
    LET lines == DiagnosticLines(prettierOutput)
    IN  WriteCmd \o
        Join([i \in 1..Len(lines) |-> QuotedFile(lines[i])], <<" ">>)

PassBody == commentIdentifier \o PassText

FailBody(prettierOutput) ==
    commentIdentifier \o FailIntro \o Trim(prettierOutput) \o FixIntro
        \o PrettierCommand(prettierOutput) \o FenceEnd

\* the body composed from the result of runExec
ComposeBody(child) ==
    IF ~child.err THEN PassBody ELSE FailBody(Trim(child.stderr))

\* what issues.listComments returns: the first page of the comments
ListedComments(all) == PageOf(all, 1, CommentsPerPage)

IsMarker(b) == Includes(b, commentIdentifier)

\* comments.find(c => c.body.includes(commentIdentifier)): the id (position
\* on the pull request) of the first such comment listed, 0 for undefined
FindComment(listed) ==
    LET hits == {i \in 1..Len(listed) : IsMarker(listed[i])}
    IN  IF hits = {} THEN 0 ELSE CHOOSE i \in hits : \A j \in hits : i <= j

(***************************************************************************)
(* State.  comments: the bodies of the pull request's comments, oldest     *)
(* first; a comment's id is its position.  runNo: the runs started so far. *)
(* runs[r]: the locals of run r, its position pc (the await it is          *)
(* suspended at), and what it has done: log lists its calls in order,      *)
(* failed is set by setFailed, exitCode lists the values given to          *)
(* setOutput("exitCode", ...).                                             *)
(***************************************************************************)
VARIABLES comments, runNo, runs
vars == <<comments, runNo, runs>>

Runs == {1, 2}

NoChild == [err |-> FALSE, stderr |-> <<>>]

IdleRun ==
    [ pc |-> "idle", prFiles |-> <<>>, prettierIgnore |-> NoIgnoreFile,
      page |-> 1, changedFiles |-> <<>>,
      cmd |-> <<>>, child |-> NoChild, body |-> <<>>, comment |-> 0,
      log |-> <<>>, failed |-> FALSE, exitCode |-> <<>> ]

Quiescent(r) == runs[r].pc \in {"idle", "done", "error"}

\* run() is called for a pull request whose file list is prFiles, in a
\* checkout whose prettier-ignore file is ig
Begin(r, prFiles, ig) ==
    /\ Quiescent(r)
    /\ runNo < MaxRuns
    /\ runNo' = runNo + 1
    /\ runs' = [runs EXCEPT ![r] =
                    [IdleRun EXCEPT !.pc = "listFiles", !.prFiles = prFiles,
                                    !.prettierIgnore = ig]]
    /\ UNCHANGED comments

\* getAllChangedFiles, a page that is not empty: its files that are not
\* removed are collected and the next page is asked for
ListFilesMore(r) ==
    LET me == runs[r]
        files == PageOf(me.prFiles, me.page, FilesPerPage)
    IN  /\ me.pc = "listFiles"
        /\ ~LastPage(files)
        /\ runs' = [runs EXCEPT ![r] =
               [me EXCEPT !.changedFiles = @ \o FilenamesOf(NotDeleted(files)),
                          !.page = @ + 1,
                          !.log = Append(@, "listFiles")]]
        /\ UNCHANGED <<comments, runNo>>

\* getAllChangedFiles, the empty page: the loop ends, the collected names
\* are filtered, and run() goes to the branch the filtered list selects
ListFilesEnd(r) ==
    LET me == runs[r]
        files == PageOf(me.prFiles, me.page, FilesPerPage)
    IN  /\ me.pc = "listFiles"
        /\ LastPage(files)
        /\ LET changedFiles == FilterChanged(me.changedFiles, me.prettierIgnore)
           IN  runs' = [runs EXCEPT ![r] =
                 [me EXCEPT !.changedFiles = changedFiles,
                            !.log = Append(@, "listFiles"),
                            !.body = IF Len(changedFiles) = 0
                                     THEN PassBody ELSE <<>>,
                            !.pc = IF Len(changedFiles) = 0
                                   THEN "listComments" ELSE "exec"]]
        /\ UNCHANGED <<comments, runNo>>

\* runExec: the subprocess ends, with exit 0 or not; neither throws.  The
\* body is composed from its result
Exec(r, child) ==
    LET me == runs[r]
    IN  /\ me.pc = "exec"
        /\ runs' = [runs EXCEPT ![r] =
               [me EXCEPT !.cmd = CheckCommand(me.changedFiles),
                          !.child = child,
                          !.body = ComposeBody(child),
                          !.log = Append(@, "exec"),
                          !.pc = "listComments"]]
        /\ UNCHANGED <<comments, runNo>>

\* a lookup that creates the comment also when the change set is empty
ListComments_CreateWhenEmpty(r) ==
    LET me == runs[r]
        comment == FindComment(ListedComments(comments))
    IN  /\ me.pc = "listComments"
        /\ runs' = [runs EXCEPT ![r] =
               [me EXCEPT !.comment = comment,
                          !.log = Append(@, "listComments"),
                          !.pc = IF comment # 0 THEN "updateComment"
                                 ELSE "createComment"]]
        /\ UNCHANGED <<comments, runNo>>

\* issues.listComments returns and the marker comment is looked up.  With an
\* empty change set and no marker found run() returns
ListComments(r) ==
    LET me == runs[r]
        comment == FindComment(ListedComments(comments))
    IN  /\ me.pc = "listComments"
        /\ runs' = [runs EXCEPT ![r] =
               [me EXCEPT !.comment = comment,
                          !.log = Append(@, "listComments"),
                          !.pc = IF comment # 0 THEN "updateComment"
                                 ELSE IF Len(me.changedFiles) = 0 THEN "done"
                                 ELSE "createComment"]]
        /\ UNCHANGED <<comments, runNo>>

\* lines 119 to 125, after the comment is written: nothing with an empty
\* change set, else the outcome is signalled
Signalled(me) ==
    IF Len(me.changedFiles) = 0 THEN me
    ELSE IF me.child.err
    THEN [me EXCEPT !.failed = TRUE,
                    !.exitCode = Append(@, 1),
                    !.log = @ \o <<"setFailed", "setOutput">>]
    ELSE [me EXCEPT !.exitCode = Append(@, 0),
                    !.log = Append(@, "setOutput")]

\* issues.updateComment returns: the found comment's body is replaced
UpdateComment(r) ==
    LET me == runs[r]
    IN  /\ me.pc = "updateComment"
        /\ comments' = [comments EXCEPT ![me.comment] = me.body]
        /\ runs' = [runs EXCEPT ![r] =
               Signalled([me EXCEPT !.log = Append(@, "updateComment"),
                                    !.pc = "done"])]
        /\ UNCHANGED runNo

\* a create that looks for the marker once more and updates it if it is
\* there by now
CreateComment_Recheck(r) ==
    LET me == runs[r]
        found == FindComment(ListedComments(comments))
    IN  /\ me.pc = "createComment"
        /\ comments' = IF found # 0 THEN [comments EXCEPT ![found] = me.body]
                       ELSE Append(comments, me.body)
        /\ runs' = [runs EXCEPT ![r] =
               Signalled([me EXCEPT !.log = Append(@, "createComment"),
                                    !.pc = "done"])]
        /\ UNCHANGED runNo

\* issues.createComment returns: a new comment is added
CreateComment(r) ==
    LET me == runs[r]
    IN  /\ me.pc = "createComment"
        /\ comments' = Append(comments, me.body)
        /\ runs' = [runs EXCEPT ![r] =
               Signalled([me EXCEPT !.log = Append(@, "createComment"),
                                    !.pc = "done"])]
        /\ UNCHANGED runNo

ApiCalls == {"listFiles", "listComments", "updateComment", "createComment"}

\* a failed API call that is caught and made again
ApiThrows_Retry(r) ==
    LET me == runs[r]
    IN  /\ me.pc \in ApiCalls
        /\ Len(me.log) < 8
        /\ runs' = [runs EXCEPT ![r] =
               [me EXCEPT !.log = @ \o <<me.pc, "threw">>]]
        /\ UNCHANGED <<comments, runNo>>

\* the API call the run is suspended at throws: nothing catches it and
\* run() rejects
ApiThrows(r) ==
    LET me == runs[r]
    IN  /\ me.pc \in ApiCalls
        /\ runs' = [runs EXCEPT ![r] =
               [me EXCEPT !.log = @ \o <<me.pc, "threw">>, !.pc = "error"]]
        /\ UNCHANGED <<comments, runNo>>

\* one step of run r at an API call
ApiStep(r) ==
    \/ ListFilesMore(r)
    \/ ListFilesEnd(r)
    \/ ListComments(r)
    \/ UpdateComment(r)
    \/ CreateComment(r)
    \/ ApiThrows(r)

\* one step of run r
Step(r) ==
    \/ ApiStep(r)
    \/ \E child \in ToolResults(runs[r].changedFiles) : Exec(r, child)

(***************************************************************************)
(* Runs one after another: a run starts when no run is under way.          *)
(***************************************************************************)
Init ==
    /\ \E n \in OtherCommentCounts : comments = [i \in 1..n |-> OtherBody]
    /\ runNo = 0
    /\ runs = [r \in Runs |-> IdleRun]

StartRun ==
    /\ \A r \in Runs : Quiescent(r)
    /\ \E prFiles \in PRFileLists, ig \in IgnoreFiles : Begin(1, prFiles, ig)

Next == StartRun \/ \E r \in Runs : Step(r)

Spec == Init /\ [][Next]_vars

(***************************************************************************)
(* Overlapping runs: a run starts whenever its slot is free, whatever the  *)
(* other run is doing.                                                     *)
(***************************************************************************)
RacePRFileLists == {<<>>, <<File(A_TS, "modified")>>}

StartOverlapping ==
    \E r \in Runs, prFiles \in RacePRFileLists :
        Begin(r, prFiles, NoIgnoreFile)

NextRace == StartOverlapping \/ \E r \in Runs : Step(r)

SpecRace == Init /\ [][NextRace]_vars

(***************************************************************************)
(* One run on a pull request with a long file list: blocks of files of one *)
(* kind each, named by their position in the list.                         *)
(***************************************************************************)
\* number of blocks of a long file list
MaxBlocks == 2

DigitChars == <<"0", "1", "2", "3", "4", "5", "6", "7", "8", "9">>

\* the decimal digits of n
RECURSIVE Digits(_)
Digits(n) ==
    IF n < 10 THEN <<DigitChars[n + 1]>>
    ELSE Digits(n \div 10) \o <<DigitChars[(n % 10) + 1]>>

FileKinds ==
    { [dir |-> <<>>, ext |-> <<".", "t", "s">>, status |-> "modified"],
      [dir |-> <<>>, ext |-> <<".", "p", "n", "g">>, status |-> "added"],
      [dir |-> <<>>, ext |-> <<".", "j", "s">>, status |-> "removed"],
      [dir |-> <<"d", "o", "c", "s", "/">>, ext |-> <<".", "m", "d">>,
       status |-> "added"] }

BlockSizes == {1, FilesPerPage \div 2, FilesPerPage}

Blocks == [kind : FileKinds, size : BlockSizes]

\* the file list made of the blocks bs, the first file numbered from
RECURSIVE BlockFiles(_, _)
BlockFiles(bs, from) ==
    IF bs = <<>> THEN <<>>
    ELSE LET b == Head(bs)
         IN  [i \in 1..b.size |->
                  File(b.kind.dir \o Digits(from + i - 1) \o b.kind.ext,
                       b.kind.status)]
             \o BlockFiles(Tail(bs), from + b.size)

LongPRFileLists ==
    {BlockFiles(bs, 1) : bs \in UNION {[1..k -> Blocks] : k \in 0..MaxBlocks}}

InitCollect ==
    /\ comments \in {<<>>, <<PassBody>>}
    /\ runNo = 0
    /\ runs = [r \in Runs |-> IdleRun]

StartCollect ==
    /\ runNo = 0
    /\ \E prFiles \in LongPRFileLists, ig \in IgnoreFiles :
           Begin(1, prFiles, ig)

NextCollect == StartCollect \/ \E r \in Runs : Step(r)

SpecCollect == InitCollect /\ [][NextCollect]_vars

(***************************************************************************)
(* One run whose tool may print any report.                                *)
(***************************************************************************)
StartReport ==
    /\ runNo = 0
    /\ \E prFiles \in ReportPRFileLists, ig \in IgnoreFiles :
           Begin(1, prFiles, ig)

StepReport(r) ==
    \/ ApiStep(r)
    \/ \E child \in AnyToolResults(runs[r].changedFiles) : Exec(r, child)

NextReport == StartReport \/ \E r \in Runs : StepReport(r)

SpecReport == InitCollect /\ [][NextReport]_vars

(***************************************************************************)
(* Properties.                                                             *)
(***************************************************************************)
\* the ids of the comments on the pull request that contain the sentinel
Markers == {i \in 1..Len(comments) : IsMarker(comments[i])}

\* s begins with prefix
StartsWith(s, prefix) ==
    /\ Len(prefix) <= Len(s)
    /\ SubSeq(s, 1, Len(prefix)) = prefix

Has(log, e) == \E i \in 1..Len(log) : log[i] = e

Count(log, S) == Cardinality({i \in 1..Len(log) : log[i] \in S})

Writes == {"updateComment", "createComment"}

\* a comment write the API accepted
Wrote(log) == \E i \in 1..Len(log) :
    /\ log[i] \in Writes
    /\ ~(i < Len(log) /\ log[i + 1] = "threw")

\* the file is dropped by the removed-status filter, the allow-list or the
\* ignore rules
FilteredOut(f, ig) ==
    \/ f.status = "removed"
    \/ ~AllowListed(f.filename)
    \/ ig.exists /\ Ignores(ig.rules, f.filename)

\* the change set the specification gives for a file list: the names, in
\* order, of the files that are not filtered out
ExpectedChangeSet(prFiles, ig) ==
    FilenamesOf(SelectSeq(prFiles, LAMBDA f : ~FilteredOut(f, ig)))

\* the run has the whole file list and has filtered it
Collected(me) ==
    /\ me.pc \notin {"idle", "listFiles"}
    /\ ~(me.pc = "error" /\ me.log[Len(me.log) - 1] = "listFiles")

\* C1: after every completed run of runs executed one after another, on a
\* pull request that started without a marker comment, at most one comment
\* contains the sentinel
C1_AtMostOneMarker ==
    (\A r \in Runs : Quiescent(r)) => Cardinality(Markers) <= 1

\* C2: when the filtered change set is empty and no listed comment contains
\* the sentinel, the run writes no comment: the step that follows the
\* listing ends the run, leaves the comments as they are, and the run's log
\* holds neither createComment nor updateComment
C2_AsymmetryRule ==
    [][\A r \in Runs :
          ( /\ runs[r].pc = "listComments"
            /\ Len(runs[r].changedFiles) = 0
            /\ \A i \in 1..Len(ListedComments(comments)) :
                   ~IsMarker(ListedComments(comments)[i])
            /\ runs'[r] # runs[r] )
          => /\ runs'[r].pc \in {"done", "error"}
             /\ comments' = comments
             /\ Count(runs'[r].log, Writes) = 0]_vars

\* a run with files, all filtered out, and no marker comment has ended
C2_Witness ==
    \E r \in Runs :
        /\ runs[r].pc = "done"
        /\ Len(runs[r].prFiles) > 0
        /\ Len(runs[r].changedFiles) = 0
        /\ runs[r].comment = 0
        /\ Has(runs[r].log, "listComments")
        /\ Markers = {}

\* C3: a completed run whose filtered change set is empty, on a pull request
\* that holds a marker comment, has replaced that comment's body with the
\* pass message by an update and has created nothing
C3_OverwritesMarker ==
    \A r \in Runs :
        ( /\ runs[r].pc = "done"
          /\ Len(runs[r].changedFiles) = 0
          /\ Markers # {} )
        => /\ runs[r].comment \in Markers
           /\ comments[runs[r].comment] = PassBody
           /\ Has(runs[r].log, "updateComment")
           /\ ~Has(runs[r].log, "createComment")

\* C4: when every file of the pull request is filtered out the tool is never
\* started and the run is not marked failed
C4_NoToolOnEmptyChangeSet ==
    \A r \in Runs :
        ( /\ runs[r].pc # "idle"
          /\ \A i \in 1..Len(runs[r].prFiles) :
                 FilteredOut(runs[r].prFiles[i], runs[r].prettierIgnore) )
        => /\ ~Has(runs[r].log, "exec")
           /\ runs[r].cmd = <<>>
           /\ ~runs[r].failed
           /\ ~Has(runs[r].log, "setFailed")
           /\ \A i \in 1..Len(runs[r].exitCode) : runs[r].exitCode[i] = 0
           /\ runs[r].pc \notin {"exec", "createComment"}

\* a run has ended whose files were dropped one by its status and one by its
\* extension or the ignore rules
C4_Witness ==
    \E r \in Runs :
        /\ runs[r].pc = "done"
        /\ Len(runs[r].prFiles) = 2
        /\ \E i \in 1..2 : runs[r].prFiles[i].status = "removed"
        /\ \E i \in 1..2 : runs[r].prFiles[i].status # "removed"
        /\ \A i \in 1..2 :
               FilteredOut(runs[r].prFiles[i], runs[r].prettierIgnore)

\* C5: after a non-zero exit of the tool the run goes on: it is marked failed
\* only after a write of the failure report was accepted, and a completed run
\* is marked failed and has upserted the report: by an update of the marker
\* comment if there was one, by a create (which then is the only marker
\* comment) otherwise
C5_NonZeroExitUpserts ==
    \A r \in Runs :
        (runs[r].child.err /\ Has(runs[r].log, "exec"))
        => /\ runs[r].failed => Wrote(runs[r].log)
           /\ runs[r].pc = "done" =>
                 /\ runs[r].failed
                 /\ Wrote(runs[r].log)
                 /\ Has(runs[r].log, "updateComment") =>
                        comments[runs[r].comment] = runs[r].body
                 /\ Has(runs[r].log, "createComment") =>
                        /\ Markers = {Len(comments)}
                        /\ comments[Len(comments)] = runs[r].body

\* C6: a completed run has given exactly one exitCode to the host, 1 and
\* the failed mark exactly when the tool reported a failure, 0 otherwise,
\* the run with an empty change set included
C6_OneOutcomeFlag ==
    \A r \in Runs :
        runs[r].pc = "done"
        => /\ Len(runs[r].exitCode) = 1
           /\ runs[r].exitCode[1] = (IF runs[r].child.err THEN 1 ELSE 0)
           /\ runs[r].failed = runs[r].child.err

\* the words of a command line: split at the spaces outside double quotes,
\* the quotes removed, a backslash inside quotes taking the next character
RECURSIVE Words(_, _, _, _)
Words(s, cur, started, quoted) ==
    LET end == IF started THEN <<cur>> ELSE <<>>
    IN  IF s = <<>> THEN end
        ELSE IF quoted
        THEN IF Head(s) = "\\" /\ Len(s) >= 2
             THEN Words(SubSeq(s, 3, Len(s)), Append(cur, s[2]), TRUE, TRUE)
             ELSE IF Head(s) = "\""
             THEN Words(Tail(s), cur, TRUE, FALSE)
             ELSE Words(Tail(s), Append(cur, Head(s)), TRUE, TRUE)
        ELSE IF Head(s) = " "
             THEN end \o Words(Tail(s), <<>>, FALSE, FALSE)
             ELSE IF Head(s) = "\""
             THEN Words(Tail(s), cur, TRUE, TRUE)
             ELSE Words(Tail(s), Append(cur, Head(s)), TRUE, FALSE)

ShellWords(s) == Words(s, <<>>, FALSE, FALSE)

\* every file argument of the command is written in double quotes
AllQuoted(args) ==
    \A i \in 1..Len(ShellWords(args)) :
        \E a, b \in 1..Len(args) :
            /\ a < b
            /\ args[a] = "\"" /\ args[b] = "\""
            /\ ShellWords(SubSeq(args, a, b)) = <<ShellWords(args)[i]>>

\* the failure comment of run r, whose tool printed the report of layout l
\* on the files names, embeds the report and a command npx prettier --write
\* whose arguments are exactly those names, in order, each quoted
RemediationNames(r, l, names) ==
    LET me == runs[r]
        head == commentIdentifier \o FailIntro \o Trim(me.child.stderr)
                    \o FixIntro \o WriteCmd
        args == SubSeq(me.body, Len(head) + 1, Len(me.body) - Len(FenceEnd))
    IN  ( /\ me.child.err
          /\ Has(me.log, "exec")
          /\ me.child.stderr = DiagnosticText(l, names) )
        => /\ StartsWith(me.body, head)
           /\ EndsWith(me.body, FenceEnd)
           /\ ShellWords(args) = names
           /\ AllQuoted(args)

C8_ChangeSetCollected ==
    \A r \in Runs :
        Collected(runs[r])
        => LET expected == ExpectedChangeSet(runs[r].prFiles,
                                             runs[r].prettierIgnore)
           IN  /\ runs[r].changedFiles = expected
               /\ Has(runs[r].log, "exec") =>
                      runs[r].cmd = CheckCmd \o Join(expected, <<" ">>)
               /\ Has(runs[r].log, "exec") <=> (expected # <<>>
                      /\ runs[r].pc # "exec")

\* the tool was started for a file list of more than one page whose first
\* page holds removed files only
C8_Witness ==
    \E r \in Runs :
        /\ Has(runs[r].log, "exec")
        /\ Len(runs[r].prFiles) > FilesPerPage
        /\ \A i \in 1..FilesPerPage : runs[r].prFiles[i].status = "removed"
        /\ Len(runs[r].changedFiles) > 0

\* C9: when two overlapping runs with change sets that are not empty both
\* listed the comments and found no marker, both create one: once both have
\* ended there are at least two marker comments
C9_RaceCreatesTwo ==
    \A r1, r2 \in Runs :
        ( /\ r1 # r2
          /\ runs[r1].pc = "done" /\ runs[r2].pc = "done"
          /\ Len(runs[r1].changedFiles) > 0 /\ Len(runs[r2].changedFiles) > 0
          /\ runs[r1].comment = 0 /\ runs[r2].comment = 0 )
        => /\ Cardinality(Markers) >= 2
           /\ Has(runs[r1].log, "createComment")
           /\ Has(runs[r2].log, "createComment")

\* two runs on a pull request without comments have ended and left two marker
\* comments
C9_Witness ==
    /\ \A r \in Runs : runs[r].pc = "done" /\ runs[r].comment = 0
    /\ Len(comments) = 2
    /\ Markers = {1, 2}

\* the stage of a call: collect, check and compose, list the comments,
\* write the comment, signal the outcome
Stage(e) ==
    CASE e = "listFiles" -> 1
      [] e = "exec" -> 2
      [] e = "listComments" -> 3
      [] e \in Writes -> 4
      [] e \in {"setFailed", "setOutput"} -> 5
      [] OTHER -> 0

\* C10: the calls of a run are in stage order; the file list is asked for
\* once per page, the tool is started at most once, the comments are listed
\* at most once and at most one comment write is made; the outcome is
\* signalled only after an accepted write; and a call that throws is the
\* last thing the run does
C10_StrictStages ==
    \A r \in Runs :
        LET log == runs[r].log
            n == Len(log)
        IN  /\ \A i, j \in 1..n :
                   (i < j /\ log[i] # "threw" /\ log[j] # "threw")
                   => Stage(log[i]) <= Stage(log[j])
            /\ Count(log, {"listFiles"}) <=
                   (Len(runs[r].prFiles) + FilesPerPage - 1) \div FilesPerPage + 1
            /\ Count(log, {"exec"}) <= 1
            /\ Count(log, {"listComments"}) <= 1
            /\ Count(log, Writes) <= 1
            /\ Count(log, {"setFailed"}) <= 1
            /\ Count(log, {"setOutput"}) <= 1
            /\ \A j \in 1..n : Stage(log[j]) = 5 => Wrote(SubSeq(log, 1, j))
            /\ \A i \in 1..n :
                   log[i] = "threw"
                   => i = n /\ i > 1 /\ log[i - 1] \in ApiCalls
            /\ runs[r].pc = "error" <=> (n > 0 /\ log[n] = "threw")
            /\ runs[r].pc = "done" => n > 0 /\ Stage(log[n]) >= 3

\* a run went through every stage: two requests for the file list, the
\* tool, the listing, a create and the failure signal
C10_Witness ==
    \E r \in Runs :
        runs[r].log = <<"listFiles", "listFiles", "exec", "listComments",
                        "createComment", "setFailed", "setOutput">>
====
